---- MODULE Spec2Model ----
(***************************************************************************)
(* Model of the architecture model graph engine (package expr, model.go):  *)
(* Parent, Model.Validate, Model.Finalize, Model.Person/SoftwareSystem/    *)
(* DeploymentNode, Model.FindElement, Model.AddPerson/AddSystem/           *)
(* AddDeploymentNode and addMissingRelationships.                          *)
(*                                                                         *)
(* Identifiers are positions in the registry (1, 2, ...), 0 is nil.        *)
(* A name or a path is a sequence of one-character strings, so that        *)
(* strings.Split(path, "/") is computed and not assumed.                   *)
(***************************************************************************)
EXTENDS Naturals, Integers, Sequences, FiniteSets

VARIABLES
    registry,   \* Registry: identifier -> object (element or relationship)
    people,     \* Model.People: identifiers, in order
    systems,    \* Model.Systems
    nodes,      \* Model.DeploymentNodes
    implied,    \* Model.AddImpliedRelationships
    history,    \* ghost: the AddPerson/AddSystem/AddDeploymentNode calls made
    phase,      \* where the host's lifecycle stands
    verr,       \* the eval.ValidationErrors Validate accumulated
    dslRan,     \* the deferred logic executed by RunDSL: <<entity, declaration>>
    found       \* the last FindElement call made by a consumer and its result

vars == <<registry, people, systems, nodes, implied, history, phase, verr, dslRan, found>>

\* ------------------------------------------------------------------ bounds

\* Calls of AddPerson/AddSystem/AddDeploymentNode in the merge scenario.
MaxCalls == 3
\* Top-level declarations in the other scenarios.
MaxTop == 2
\* Objects (elements and relationships) in the resolution scenario.
ResolveObjects == 4
\* Elements in the lookup scenario.
FindObjects == 4
\* Containers, container instances and relationships in the mirroring scenario.
MaxMirrorContainers == 2
MaxMirrorInstances == 3
MaxMirrorRels == 1
\* Objects in the implied-relationship scenarios.
ImpliedObjects == 4
WideObjects == 6

\* ------------------------------------------------------------------ values

Slash == "/"
NameA == <<"a">>
NameB == <<"b">>
NameAB == <<"a", "/", "b">>
\* Names of elements in the merge scenario.
Names == {NameA, NameB}
Descriptions == {"", "x", "y"}
\* (Description, Technology) of a declared deployment node.
NodeLabels == {<<"", "">>, <<"x", "">>, <<"", "t">>, <<"y", "u">>}

Nil == 0
\* A DSLFunc is a sequence of calls; a call is the number of the declaration
\* whose function literal it is, or NilCall for a call of a nil func value.
\* The nil DSLFunc is the empty sequence.
NilFunc == <<>>
NilCall == 0

Max(a, b) == IF a >= b THEN a ELSE b

IsElementKind(k) ==
    k \in {"Person", "SoftwareSystem", "Container", "Component",
           "DeploymentNode", "ContainerInstance"}

\* A fresh element; kids: Containers of a system, Components of a container;
\* cid: ContainerID of a container instance.
NewElement(kind, name, desc, tech, parent, cid, dsl) ==
    [kind |-> kind, name |-> name, desc |-> desc, tech |-> tech,
     parent |-> parent, cid |-> cid, kids |-> <<>>, rels |-> <<>>, dsl |-> dsl]

\* A fresh relationship; dest = Nil with a pending DestinationPath, or set.
NewRelationship(src, dest, path, desc, tech, linked) ==
    [kind |-> "Relationship", src |-> src, dest |-> dest, path |-> path,
     desc |-> desc, tech |-> tech, linked |-> linked]

\* Identify: the next unused identifier is bound to the object.
Identify(reg, obj) == Append(reg, obj)

NewID(reg) == Len(reg) + 1

\* ------------------------------------------------------------------ lookups

RECURSIVE FirstNamed(_, _, _, _)
\* The first identifier of ids, from position i, whose object is named name.
FirstNamed(reg, ids, name, i) ==
    IF i > Len(ids) THEN Nil
    ELSE IF reg[ids[i]].name = name THEN ids[i]
    ELSE FirstNamed(reg, ids, name, i + 1)

Person(reg, ppl, name) == FirstNamed(reg, ppl, name, 1)

SoftwareSystem(reg, sys, name) == FirstNamed(reg, sys, name, 1)

DeploymentNode(reg, nds, name) == FirstNamed(reg, nds, name, 1)

\* SoftwareSystem.Container(name)
Container(reg, s, name) == FirstNamed(reg, reg[s].kids, name, 1)

\* Container.Component(name)
Component(reg, c, name) == FirstNamed(reg, reg[c].kids, name, 1)

\* ------------------------------------------------------------------ merge

\* existing.DSLFunc = func() { olddsl(); p.DSLFunc() }, only when olddsl != nil.
ComposeDSL(olddsl, newdsl) ==
    IF olddsl # NilFunc
    THEN olddsl \o (IF newdsl = NilFunc THEN <<NilCall>> ELSE newdsl)
    ELSE olddsl

\* Mutant: the incoming value always overwrites the existing one.
MergeTextAlways(old, new) == new

\* if p.Description != "" { existing.Description = p.Description }
MergeText(old, new) == IF new # "" THEN new ELSE old

\* The function literal of declaration number n, or nil.
DeclFunc(hasdsl, n) == IF hasdsl THEN <<n>> ELSE NilFunc

Call(kind, name, desc, tech, hasdsl, ret) ==
    [kind |-> kind, name |-> name, desc |-> desc, tech |-> tech,
     hasdsl |-> hasdsl, ret |-> ret]

AddPerson(name, desc, hasdsl) ==
    /\ phase = "build"
    /\ LET existing == Person(registry, people, name)
           n == Len(history) + 1
       IN IF existing = Nil
          THEN /\ registry' = Identify(registry,
                     NewElement("Person", name, desc, "", Nil, Nil, DeclFunc(hasdsl, n)))
               /\ people' = Append(people, NewID(registry))
               /\ history' = Append(history,
                     Call("Person", name, desc, "", hasdsl, NewID(registry)))
          ELSE /\ registry' = [registry EXCEPT
                     ![existing].desc = MergeText(@, desc),
                     ![existing].dsl = ComposeDSL(@, DeclFunc(hasdsl, n))]
               /\ people' = people
               /\ history' = Append(history,
                     Call("Person", name, desc, "", hasdsl, existing))
    /\ UNCHANGED <<systems, nodes, implied, phase, verr, dslRan, found>>

AddSystem(name, desc, hasdsl) ==
    /\ phase = "build"
    /\ LET existing == SoftwareSystem(registry, systems, name)
           n == Len(history) + 1
       IN IF existing = Nil
          THEN /\ registry' = Identify(registry,
                     NewElement("SoftwareSystem", name, desc, "", Nil, Nil, DeclFunc(hasdsl, n)))
               /\ systems' = Append(systems, NewID(registry))
               /\ history' = Append(history,
                     Call("SoftwareSystem", name, desc, "", hasdsl, NewID(registry)))
          ELSE /\ registry' = [registry EXCEPT
                     ![existing].desc = MergeText(@, desc),
                     ![existing].dsl = ComposeDSL(@, DeclFunc(hasdsl, n))]
               /\ systems' = systems
               /\ history' = Append(history,
                     Call("SoftwareSystem", name, desc, "", hasdsl, existing))
    /\ UNCHANGED <<people, nodes, implied, phase, verr, dslRan, found>>

AddDeploymentNode(name, desc, tech, hasdsl) ==
    /\ phase = "build"
    /\ LET existing == DeploymentNode(registry, nodes, name)
           n == Len(history) + 1
       IN IF existing = Nil
          THEN /\ registry' = Identify(registry,
                     NewElement("DeploymentNode", name, desc, tech, Nil, Nil, DeclFunc(hasdsl, n)))
               /\ nodes' = Append(nodes, NewID(registry))
               /\ history' = Append(history,
                     Call("DeploymentNode", name, desc, tech, hasdsl, NewID(registry)))
          ELSE /\ registry' = [registry EXCEPT
                     ![existing].desc = MergeText(@, desc),
                     ![existing].tech = MergeText(@, tech),
                     ![existing].dsl = ComposeDSL(@, DeclFunc(hasdsl, n))]
               /\ nodes' = nodes
               /\ history' = Append(history,
                     Call("DeploymentNode", name, desc, tech, hasdsl, existing))
    /\ UNCHANGED <<people, systems, implied, phase, verr, dslRan, found>>

RECURSIVE RunCalls(_, _, _)
\* Calls dsl from position i on behalf of entity e: the calls made before the
\* first call of a nil func, and whether that call was reached.
RunCalls(e, dsl, i) ==
    IF i > Len(dsl) THEN [ran |-> <<>>, panicked |-> FALSE]
    ELSE IF dsl[i] = NilCall THEN [ran |-> <<>>, panicked |-> TRUE]
    ELSE LET rest == RunCalls(e, dsl, i + 1)
         IN [ran |-> <<<<e, dsl[i]>>>> \o rest.ran, panicked |-> rest.panicked]

RECURSIVE RunAll(_, _)
\* The host runs the DSLFunc of every registered entity that has one, in
\* registry order; a nil func call aborts the run.
RunAll(reg, i) ==
    IF i > Len(reg) THEN [ran |-> <<>>, panicked |-> FALSE]
    ELSE LET one == IF IsElementKind(reg[i].kind) /\ reg[i].dsl # NilFunc
                    THEN RunCalls(i, reg[i].dsl, 1)
                    ELSE [ran |-> <<>>, panicked |-> FALSE]
         IN IF one.panicked THEN one
            ELSE LET rest == RunAll(reg, i + 1)
                 IN [ran |-> one.ran \o rest.ran, panicked |-> rest.panicked]

RunDSL ==
    /\ phase = "build"
    /\ history # <<>>
    /\ LET out == RunAll(registry, 1)
       IN /\ dslRan' = out.ran
          /\ phase' = IF out.panicked THEN "dslpanic" ELSE "ran"
    /\ UNCHANGED <<registry, people, systems, nodes, implied, history, verr, found>>

\* ------------------------------------------------------------------ build
\* The build phase's element- and relationship-constructing operations that
\* populate the hierarchy below the top level.

Children(reg) ==
    Cardinality({i \in 1..Len(reg) : reg[i].kind \in {"Container", "Component"}})

Relationships(reg) ==
    Cardinality({i \in 1..Len(reg) : reg[i].kind = "Relationship"})

Instances(reg) ==
    Cardinality({i \in 1..Len(reg) : reg[i].kind = "ContainerInstance"})

\* A container named name is declared in software system s.
AddContainer(s, name) ==
    /\ phase = "ran"
    /\ s \in 1..Len(registry)
    /\ registry[s].kind = "SoftwareSystem"
    /\ registry' = [Identify(registry,
                        NewElement("Container", name, "", "", s, Nil, NilFunc))
                    EXCEPT ![s].kids = Append(@, NewID(registry))]
    /\ UNCHANGED <<people, systems, nodes, implied, history, phase, verr, dslRan, found>>

\* A component named name is declared in container c.
AddComponent(c, name) ==
    /\ phase = "ran"
    /\ c \in 1..Len(registry)
    /\ registry[c].kind = "Container"
    /\ registry' = [Identify(registry,
                        NewElement("Component", name, "", "", c, Nil, NilFunc))
                    EXCEPT ![c].kids = Append(@, NewID(registry))]
    /\ UNCHANGED <<people, systems, nodes, implied, history, phase, verr, dslRan, found>>

\* A relationship is declared on element src, its destination given either
\* as an element (dest) or as a path still to be resolved (dest = Nil).
Uses(src, dest, path, desc, tech) ==
    /\ phase = "ran"
    /\ src \in 1..Len(registry)
    /\ registry[src].kind \in {"Person", "SoftwareSystem", "Container", "Component"}
    /\ dest = Nil \/ (dest \in 1..Len(registry) /\
                      registry[dest].kind \in {"Person", "SoftwareSystem", "Container", "Component"})
    /\ registry' = [Identify(registry, NewRelationship(src, dest, path, desc, tech, Nil))
                    EXCEPT ![src].rels = Append(@, NewID(registry))]
    /\ UNCHANGED <<people, systems, nodes, implied, history, phase, verr, dslRan, found>>

\* An instance of container c is declared on deployment node n.
AddContainerInstance(n, c) ==
    /\ phase = "ran"
    /\ n \in 1..Len(registry) /\ registry[n].kind = "DeploymentNode"
    /\ c \in 1..Len(registry) /\ registry[c].kind = "Container"
    /\ registry' = [Identify(registry,
                        NewElement("ContainerInstance", registry[c].name, "", "", n, c, NilFunc))
                    EXCEPT ![n].kids = Append(@, NewID(registry))]
    /\ UNCHANGED <<people, systems, nodes, implied, history, phase, verr, dslRan, found>>

\* ------------------------------------------------------------------ paths

RECURSIVE SplitFrom(_, _, _)
\* strings.Split(path, "/") from position i, cur being the segment under way.
SplitFrom(path, i, cur) ==
    IF i > Len(path) THEN <<cur>>
    ELSE IF path[i] = Slash THEN <<cur>> \o SplitFrom(path, i + 1, <<>>)
    ELSE SplitFrom(path, i + 1, Append(cur, path[i]))

Split(path) == SplitFrom(path, 1, <<>>)

RECURSIVE Join(_)
\* The path that names the segments segs: they are joined by "/".
Join(segs) ==
    IF Len(segs) = 0 THEN <<>>
    ELSE IF Len(segs) = 1 THEN segs[1]
    ELSE segs[1] \o <<Slash>> \o Join(Tail(segs))

PanicScope == -1

\* Parent(eh): nil for a Person or SoftwareSystem, the system of a Container,
\* the container of a Component; any other type panics.
Parent(reg, e) ==
    CASE reg[e].kind \in {"SoftwareSystem", "Person"} -> Nil
      [] reg[e].kind = "Container" -> reg[e].parent
      [] reg[e].kind = "Component" -> reg[e].parent
      [] OTHER -> PanicScope

Found(id) == [res |-> "ok", id |-> id]
NotFound == [res |-> "err", id |-> Nil]
Panicked == [res |-> "panic", id |-> Nil]

KindOf(reg, scope) == IF scope = Nil THEN "nil" ELSE reg[scope].kind

\* Mutant: the top level is looked up before the scope.
FindOneTopFirst(reg, ppl, sys, scope, path) ==
    LET inScope ==
            CASE KindOf(reg, scope) = "SoftwareSystem" -> Container(reg, scope, path)
              [] KindOf(reg, scope) = "Container" -> Component(reg, scope, path)
              [] OTHER -> Nil
        p == Person(reg, ppl, path)
        s == SoftwareSystem(reg, sys, path)
    IN IF p # Nil THEN Found(p)
       ELSE IF s # Nil THEN Found(s)
       ELSE IF inScope # Nil THEN Found(inScope)
       ELSE NotFound

\* case 1 of FindElement
FindOne(reg, ppl, sys, scope, path) ==
    LET inScope ==
            CASE KindOf(reg, scope) = "SoftwareSystem" -> Container(reg, scope, path)
              [] KindOf(reg, scope) = "Container" -> Component(reg, scope, path)
              [] OTHER -> Nil
        p == Person(reg, ppl, path)
        s == SoftwareSystem(reg, sys, path)
    IN IF inScope # Nil THEN Found(inScope)
       ELSE IF p # Nil THEN Found(p)
       ELSE IF s # Nil THEN Found(s)
       ELSE NotFound

\* case 2 of FindElement: the error message reads scope.GetElement().Name,
\* a method call on a nil interface when scope is nil.
FindTwo(reg, ppl, sys, scope, elems) ==
    LET c == IF KindOf(reg, scope) = "SoftwareSystem"
             THEN Container(reg, scope, elems[1]) ELSE Nil
        cmp == IF c # Nil THEN Component(reg, c, elems[2]) ELSE Nil
        s == SoftwareSystem(reg, sys, elems[1])
        sc == IF s # Nil THEN Container(reg, s, elems[2]) ELSE Nil
    IN IF cmp # Nil THEN Found(cmp)
       ELSE IF sc # Nil THEN Found(sc)
       ELSE IF scope = Nil THEN Panicked
       ELSE NotFound

\* case 3 of FindElement
FindThree(reg, ppl, sys, elems) ==
    LET s == SoftwareSystem(reg, sys, elems[1])
        c == IF s # Nil THEN Container(reg, s, elems[2]) ELSE Nil
        cmp == IF c # Nil THEN Component(reg, c, elems[3]) ELSE Nil
    IN IF cmp # Nil THEN Found(cmp) ELSE NotFound

FindElement(reg, ppl, sys, scope, path) ==
    LET elems == Split(path)
    IN CASE Len(elems) = 1 -> FindOne(reg, ppl, sys, scope, path)
         [] Len(elems) = 2 -> FindTwo(reg, ppl, sys, scope, elems)
         [] Len(elems) = 3 -> FindThree(reg, ppl, sys, elems)
         [] OTHER -> NotFound

\* ------------------------------------------------------------------ validate

DupError(e) == [on |-> e, msg |-> "name already in use"]
PathError(r) == [on |-> r, msg |-> "unresolved destination"]

\* if _, ok := known[x.Name]; ok { verr.Add(x, "name already in use") }
CheckName(reg, e, known) ==
    IF reg[e].name \in known THEN <<DupError(e)>> ELSE <<>>

RECURSIVE ScanComponents(_, _, _, _)
ScanComponents(reg, ids, i, components) ==
    IF i > Len(ids) THEN <<>>
    ELSE CheckName(reg, ids[i], components)
         \o ScanComponents(reg, ids, i + 1, components \cup {reg[ids[i]].name})

RECURSIVE ScanContainers(_, _, _, _)
ScanContainers(reg, ids, i, containers) ==
    IF i > Len(ids) THEN <<>>
    ELSE CheckName(reg, ids[i], containers)
         \o ScanComponents(reg, reg[ids[i]].kids, 1, {})
         \o ScanContainers(reg, ids, i + 1, containers \cup {reg[ids[i]].name})

RECURSIVE ScanSystems(_, _, _, _)
ScanSystems(reg, ids, i, known) ==
    IF i > Len(ids) THEN <<>>
    ELSE CheckName(reg, ids[i], known)
         \o ScanContainers(reg, reg[ids[i]].kids, 1, {})
         \o ScanSystems(reg, ids, i + 1, known \cup {reg[ids[i]].name})

RECURSIVE ScanPeople(_, _, _, _)
ScanPeople(reg, ids, i, known) ==
    IF i > Len(ids) THEN <<>>
    ELSE CheckName(reg, ids[i], known)
         \o ScanPeople(reg, ids, i + 1, known \cup {reg[ids[i]].name})

\* Mutant: the names of systems are checked apart from those of people.
ScanAllApart(reg, ppl, sys) ==
    ScanPeople(reg, ppl, 1, {}) \o ScanSystems(reg, sys, 1, {})

\* The first half of Validate: the names of People and Systems share known.
ScanAll(reg, ppl, sys) ==
    ScanPeople(reg, ppl, 1, {})
    \o ScanSystems(reg, sys, 1, {reg[ppl[i]].name : i \in 1..Len(ppl)})

\* Mutant: a resolution failure is not recorded.
ResolveOneSilent(st, ppl, sys, r) ==
    IF st.reg[r].dest # Nil THEN st
    ELSE LET scope == Parent(st.reg, st.reg[r].src)
             got == IF scope = PanicScope THEN Panicked
                    ELSE FindElement(st.reg, ppl, sys, scope, st.reg[r].path)
         IN CASE got.res = "panic" -> [st EXCEPT !.panicked = TRUE]
              [] got.res = "err" -> st
              [] OTHER -> [st EXCEPT !.reg[r].dest = got.id]

\* The visitor Validate hands to IterateRelationships, applied to r; st is
\* [reg, errs, panicked].
ResolveOne(st, ppl, sys, r) ==
    IF st.reg[r].dest # Nil THEN st
    ELSE LET scope == Parent(st.reg, st.reg[r].src)
             got == IF scope = PanicScope THEN Panicked
                    ELSE FindElement(st.reg, ppl, sys, scope, st.reg[r].path)
         IN CASE got.res = "panic" -> [st EXCEPT !.panicked = TRUE]
              [] got.res = "err" -> [st EXCEPT !.errs = Append(@, PathError(r))]
              [] OTHER -> [st EXCEPT !.reg[r].dest = got.id]

RECURSIVE IterateRelationships(_, _, _, _)
\* Every relationship of the registry is visited once, in identifier order;
\* a panic of the visitor ends the iteration.
IterateRelationships(st, ppl, sys, i) ==
    IF i > Len(st.reg) \/ st.panicked THEN st
    ELSE IF st.reg[i].kind = "Relationship"
         THEN IterateRelationships(ResolveOne(st, ppl, sys, i), ppl, sys, i + 1)
         ELSE IterateRelationships(st, ppl, sys, i + 1)

ValidateResult(reg, ppl, sys) ==
    IterateRelationships(
        [reg |-> reg, errs |-> ScanAll(reg, ppl, sys), panicked |-> FALSE],
        ppl, sys, 1)

Validate ==
    /\ phase = "ran"
    /\ LET out == ValidateResult(registry, people, systems)
       IN /\ registry' = out.reg
          /\ verr' = IF out.panicked THEN <<>> ELSE out.errs
          /\ phase' = IF out.panicked THEN "vpanic" ELSE "validated"
    /\ UNCHANGED <<people, systems, nodes, implied, history, dslRan, found>>

\* A consumer calls FindElement(scope, path) on the validated model.
Find(scope, path) ==
    /\ phase = "validated"
    /\ scope = Nil \/ (scope \in 1..Len(registry) /\
                       registry[scope].kind \in {"Person", "SoftwareSystem", "Container", "Component"})
    /\ LET got == FindElement(registry, people, systems, scope, path)
       IN found' = [scope |-> scope, path |-> path, res |-> got.res, id |-> got.id]
    /\ phase' = "queried"
    /\ UNCHANGED <<registry, people, systems, nodes, implied, history, verr, dslRan>>

\* ------------------------------------------------------------------ finalize

\* Relationship.Dup: a relationship from newSrc to newDest with r's
\* description and technology and an identity of its own, registered.
Dup(reg, r, newSrc, newDest, linked) ==
    Identify(reg, NewRelationship(newSrc, newDest, <<>>, reg[r].desc, reg[r].tech, linked))

\* Iterate visits the objects registered when it starts, in identifier order.
IDSeq(n) == [i \in 1..n |-> i]

\* The container instances that the inner Iterate finds for container dc.
InstancesOf(reg, dc) ==
    SelectSeq(IDSeq(Len(reg)),
              LAMBDA j : reg[j].kind = "ContainerInstance" /\ reg[j].cid = dc)

RECURSIVE MirrorInto(_, _, _, _, _)
\* The inner Iterate: rc := r.Dup(ci, eci); rc.LinkedRelationshipID = r.ID;
\* ci.Relationships = append(ci.Relationships, rc), for the instances ecis[k..].
MirrorInto(reg, ci, r, ecis, k) ==
    IF k > Len(ecis) THEN reg
    ELSE MirrorInto([Dup(reg, r, ci, ecis[k], r) EXCEPT ![ci].rels = Append(@, NewID(reg))],
                    ci, r, ecis, k + 1)

RECURSIVE MirrorRels(_, _, _, _)
\* for _, r := range c.Relationships, from position k of rs.
MirrorRels(reg, ci, rs, k) ==
    IF k > Len(rs) THEN reg
    ELSE LET dc == reg[rs[k]].dest
         IN IF reg[dc].kind # "Container"
            THEN MirrorRels(reg, ci, rs, k + 1)
            ELSE MirrorRels(MirrorInto(reg, ci, rs[k], InstancesOf(reg, dc), 1),
                            ci, rs, k + 1)

RECURSIVE MirrorAll(_, _, _)
\* The outer Iterate of the first pass, over the identifiers i..n.
MirrorAll(reg, i, n) ==
    IF i > n THEN reg
    ELSE IF reg[i].kind = "ContainerInstance"
         THEN MirrorAll(MirrorRels(reg, i, reg[reg[i].cid].rels, 1), i + 1, n)
         ELSE MirrorAll(reg, i + 1, n)

\* src already has a relationship to dest with the description of existing.
HasRelationship(reg, src, dest, existing) ==
    \E k \in 1..Len(reg[src].rels) :
        /\ reg[reg[src].rels[k]].dest = dest
        /\ reg[reg[src].rels[k]].desc = reg[existing].desc

RECURSIVE AddMissingAlways(_, _, _, _)
\* Mutant: the relationship is added without looking for an existing one.
AddMissingAlways(reg, src, dest, existing) ==
    LET added == [Dup(reg, existing, src, dest, Nil) EXCEPT ![src].rels = Append(@, NewID(reg))]
    IN CASE reg[dest].kind = "Container" ->
               AddMissingAlways(added, src, reg[dest].parent, existing)
         [] reg[dest].kind = "Component" ->
               AddMissingAlways(
                   AddMissingAlways(added, src, reg[dest].parent, existing),
                   src, reg[reg[dest].parent].parent, existing)
         [] OTHER -> added

RECURSIVE addMissingRelationships(_, _, _, _)
addMissingRelationships(reg, src, dest, existing) ==
    IF HasRelationship(reg, src, dest, existing) THEN reg
    ELSE LET added == [Dup(reg, existing, src, dest, Nil)
                       EXCEPT ![src].rels = Append(@, NewID(reg))]
         IN CASE reg[dest].kind = "Container" ->
                    addMissingRelationships(added, src, reg[dest].parent, existing)
              [] reg[dest].kind = "Component" ->
                    addMissingRelationships(
                        addMissingRelationships(added, src, reg[dest].parent, existing),
                        src, reg[reg[dest].parent].parent, existing)
              [] OTHER -> added

\* The visitor of the second pass, applied to the relationship r.
PropagateOne(reg, r) ==
    LET s == reg[r].src
    IN CASE reg[s].kind = "Container" ->
               addMissingRelationships(reg, reg[s].parent, reg[r].dest, r)
         [] reg[s].kind = "Component" ->
               addMissingRelationships(
                   addMissingRelationships(reg, reg[s].parent, reg[r].dest, r),
                   reg[reg[s].parent].parent, reg[r].dest, r)
         [] OTHER -> reg

RECURSIVE PropagateAll(_, _, _)
\* The Iterate of the second pass, over the identifiers i..n.
PropagateAll(reg, i, n) ==
    IF i > n THEN reg
    ELSE IF reg[i].kind = "Relationship"
         THEN PropagateAll(PropagateOne(reg, i), i + 1, n)
         ELSE PropagateAll(reg, i + 1, n)

FinalizeResult(reg, flag) ==
    LET mirrored == MirrorAll(reg, 1, Len(reg))
    IN IF ~flag THEN mirrored
       ELSE PropagateAll(mirrored, 1, Len(mirrored))

\* The host calls Finalize once Validate has returned no error; every
\* relationship then has its Destination.
Finalize ==
    /\ phase = "validated"
    /\ verr = <<>>
    /\ registry' = FinalizeResult(registry, implied)
    /\ phase' = "finalized"
    /\ UNCHANGED <<people, systems, nodes, implied, history, verr, dslRan, found>>

NoFind == [scope |-> Nil, path |-> <<>>, res |-> "none", id |-> Nil]

InitEmpty ==
    /\ registry = <<>>
    /\ people = <<>>
    /\ systems = <<>>
    /\ nodes = <<>>
    /\ implied \in BOOLEAN
    /\ history = <<>>
    /\ phase = "build"
    /\ verr = <<>>
    /\ dslRan = <<>>
    /\ found = NoFind

InitMerge == InitEmpty /\ implied = FALSE

\* The scenarios bound the number of calls and of objects.
Calls(max) == Len(history) < max
Room(max) == Len(registry) < max
\* The scenarios declare the hierarchy first and the relationships after it:
\* Validate and Finalize visit the relationships apart from the elements.
NoRels == Relationships(registry) = 0

NextMerge ==
    \/ \E name \in Names, desc \in Descriptions, hasdsl \in BOOLEAN :
          Calls(MaxCalls) /\ AddPerson(name, desc, hasdsl)
    \/ \E name \in Names, desc \in {"", "x"}, hasdsl \in BOOLEAN :
          Calls(MaxCalls) /\ AddSystem(name, desc, hasdsl)
    \/ \E lab \in NodeLabels, hasdsl \in BOOLEAN :
          Calls(MaxCalls) /\ AddDeploymentNode(NameA, lab[1], lab[2], hasdsl)
    \/ RunDSL

SpecMerge == InitMerge /\ [][NextMerge]_vars

\* ------------------------------------------------------------------ merge claims

\* The collection of the given kind.
Collection(kind) ==
    CASE kind = "Person" -> people
      [] kind = "SoftwareSystem" -> systems
      [] OTHER -> nodes

TopKinds == {"Person", "SoftwareSystem", "DeploymentNode"}

\* The positions of history that declare (kind, name).
DeclsOf(kind, name) ==
    {i \in 1..Len(history) : history[i].kind = kind /\ history[i].name = name}

RECURSIVE FirstSeen(_, _)
\* The names declared for kind up to position n, in first-declaration order.
FirstSeen(kind, n) ==
    IF n = 0 THEN <<>>
    ELSE LET before == FirstSeen(kind, n - 1)
             c == history[n]
         IN IF c.kind = kind /\ ~(\E j \in 1..Len(before) : before[j] = c.name)
            THEN Append(before, c.name) ELSE before

\* The last non-empty Description declared for (kind, name), "" if none.
LastDesc(kind, name) ==
    LET S == {i \in DeclsOf(kind, name) : history[i].desc # ""}
    IN IF S = {} THEN "" ELSE history[CHOOSE i \in S : \A j \in S : j <= i].desc

LastTech(kind, name) ==
    LET S == {i \in DeclsOf(kind, name) : history[i].tech # ""}
    IN IF S = {} THEN "" ELSE history[CHOOSE i \in S : \A j \in S : j <= i].tech

\* C3: after any sequence of AddPerson/AddSystem/AddDeploymentNode calls each
\* collection holds one entity per distinct name in first-declaration order,
\* every call returned the entity of the first declaration of its name, and
\* the entity's Description (and Technology) is the last non-empty one given.
C3_MergeUpsert ==
    \A kind \in TopKinds :
        LET coll == Collection(kind)
            seen == FirstSeen(kind, Len(history))
        IN /\ Len(coll) = Len(seen)
           /\ \A k \in 1..Len(coll) :
                 /\ registry[coll[k]].kind = kind
                 /\ registry[coll[k]].name = seen[k]
                 /\ registry[coll[k]].desc = LastDesc(kind, seen[k])
                 /\ registry[coll[k]].tech = LastTech(kind, seen[k])
                 /\ \A i \in DeclsOf(kind, seen[k]) : history[i].ret = coll[k]
                 /\ \A i \in DeclsOf(kind, seen[k]) :
                       history[i].ret = history[CHOOSE m \in DeclsOf(kind, seen[k]) :
                                                   \A j \in DeclsOf(kind, seen[k]) : m <= j].ret

\* A name was declared with a description and declared again with none.
C3_Witness ==
    \E i, j \in 1..Len(history) :
        /\ i < j
        /\ history[i].kind = history[j].kind
        /\ history[i].name = history[j].name
        /\ history[i].desc # ""
        /\ history[j].desc = ""
        /\ history[j].ret = history[i].ret

\* The declarations of the entity e that carry deferred logic, in order.
RECURSIVE LogicOf(_, _)
LogicOf(e, n) ==
    IF n = 0 THEN <<>>
    ELSE IF history[n].ret = e /\ history[n].hasdsl
         THEN Append(LogicOf(e, n - 1), n) ELSE LogicOf(e, n - 1)

RECURSIVE RanFor(_, _)
\* The declarations whose logic RunDSL executed for e, in execution order.
RanFor(e, n) ==
    IF n = 0 THEN <<>>
    ELSE IF dslRan[n][1] = e
         THEN Append(RanFor(e, n - 1), dslRan[n][2]) ELSE RanFor(e, n - 1)

\* C2: running the surviving entity's deferred logic runs the logic of every
\* declaration of its name exactly once, in declaration order, whether or not
\* the earlier declarations had logic of their own.
C2_ComposedInOrder ==
    phase \in {"ran", "dslpanic"} =>
        /\ phase = "ran"
        /\ \A e \in 1..Len(registry) :
              RanFor(e, Len(dslRan)) = LogicOf(e, Len(history))

\* ------------------------------------------------------------------ resolution scenario

\* Names of containers and components.
ChildNames == {NameA, NameB}

\* The destination paths given to Uses: one to four segments.
UsesPaths ==
    {NameA, Join(<<NameA, NameB>>), Join(<<NameB, NameA, NameA>>),
     Join(<<NameA, NameA, NameA, NameA>>)}

InitResolve == InitEmpty /\ implied = FALSE

NextResolve ==
    \/ Calls(MaxTop) /\ AddPerson(NameA, "", TRUE)
    \/ \E name \in Names : Calls(MaxTop) /\ AddSystem(name, "", TRUE)
    \/ Calls(MaxTop) /\ AddDeploymentNode(NameA, "", "", TRUE)
    \/ RunDSL
    \/ \E s \in 1..Len(registry), name \in ChildNames :
          NoRels /\ Room(ResolveObjects) /\ AddContainer(s, name)
    \/ \E c \in 1..Len(registry), name \in ChildNames :
          NoRels /\ Room(ResolveObjects) /\ AddComponent(c, name)
    \/ \E src \in 1..Len(registry), path \in UsesPaths :
          Room(ResolveObjects) /\ Uses(src, Nil, path, "uses", "")
    \/ \E src \in 1..Len(registry), dest \in 1..Len(registry) :
          Room(ResolveObjects) /\ Uses(src, dest, <<>>, "uses", "")
    \/ Validate

SpecResolve == InitResolve /\ [][NextResolve]_vars

\* ------------------------------------------------------------------ resolution claims

RelIDs(reg) == {r \in 1..Len(reg) : reg[r].kind = "Relationship"}

\* The number of entries of errs that are the error err.
Count(errs, err) == Cardinality({i \in 1..Len(errs) : errs[i] = err})

\* The number of errors recorded on the object e.
ErrorsOn(errs, e) == Cardinality({i \in 1..Len(errs) : errs[i].on = e})

\* C1: Validate returns its aggregate without aborting, and a relationship
\* whose two-segment path resolves under neither interpretation is reported
\* as a validation error on that relationship, also when its source is a
\* Person or SoftwareSystem.
C1_ValidateNeverAborts ==
    /\ phase # "vpanic"
    /\ phase = "validated" =>
          \A r \in RelIDs(registry) :
              (registry[r].dest = Nil /\ Len(Split(registry[r].path)) = 2)
                  => ErrorsOn(verr, r) = 1

\* C4: Validate binds a pending relationship to what FindElement returns for
\* its path in the scope of its source's parent, or leaves it nil with exactly
\* one error recorded for it; no relationship is dropped and one whose
\* Destination was set is left unchanged.
C4_DeferredResolution ==
    [][(phase = "ran" /\ phase' = "validated") =>
          /\ Len(registry') = Len(registry)
          /\ \A r \in RelIDs(registry) :
                IF registry[r].dest # Nil
                THEN registry'[r] = registry[r] /\ ErrorsOn(verr', r) = 0
                ELSE LET got == FindElement(registry, people, systems,
                                    Parent(registry, registry[r].src), registry[r].path)
                     IN /\ registry'[r] = [registry[r] EXCEPT !.dest = registry'[r].dest]
                        /\ \/ /\ got.res = "ok"
                              /\ registry'[r].dest = got.id
                              /\ ErrorsOn(verr', r) = 0
                           \/ /\ got.res = "err"
                              /\ registry'[r].dest = Nil
                              /\ ErrorsOn(verr', r) = 1]_vars

\* Validate completed with one relationship bound, one reported and one that
\* was declared with its destination.
C4_Witness ==
    /\ phase = "validated"
    /\ \E r \in RelIDs(registry) :
          registry[r].path # <<>> /\ registry[r].dest # Nil /\ ErrorsOn(verr, r) = 0
    /\ \E r \in RelIDs(registry) :
          registry[r].path # <<>> /\ registry[r].dest = Nil /\ ErrorsOn(verr, r) = 1

\* The entities of a scope, in scan order: the top level, the containers of
\* a system, the components of a container.
TopScope == people \o systems

ScopeLists ==
    {TopScope} \cup
    {registry[e].kids : e \in {x \in 1..Len(registry) :
                                 registry[x].kind \in {"SoftwareSystem", "Container"}}}

\* The name of the k-th entity of scope was seen earlier in scope.
SeenEarlier(scope, k) ==
    \E j \in 1..(k - 1) : registry[scope[j]].name = registry[scope[k]].name

DistinctNames(scope) == Cardinality({registry[scope[k]].name : k \in 1..Len(scope)})

\* C5: Validate records one "name already in use" error for each entity whose
\* name was seen earlier in its scope and none for any other; per scope the
\* errors number the entities minus the distinct names.
C5_DuplicateNames ==
    phase = "validated" =>
        /\ \A scope \in ScopeLists :
              /\ \A k \in 1..Len(scope) :
                    Count(verr, DupError(scope[k])) = IF SeenEarlier(scope, k) THEN 1 ELSE 0
              /\ Cardinality({i \in 1..Len(verr) :
                      verr[i].msg = "name already in use" /\
                      \E k \in 1..Len(scope) : scope[k] = verr[i].on})
                 = Len(scope) - DistinctNames(scope)
        /\ \A i \in 1..Len(verr) :
              verr[i].msg = "name already in use" =>
                  \E scope \in ScopeLists : \E k \in 1..Len(scope) :
                      scope[k] = verr[i].on /\ SeenEarlier(scope, k)

\* Validate reported a system that bears the name of a person, and went on to
\* scan its containers.
C5_Witness ==
    /\ phase = "validated"
    /\ \E i \in 1..Len(verr) :
          /\ verr[i].msg = "name already in use"
          /\ registry[verr[i].on].kind = "SoftwareSystem"
          /\ Len(registry[verr[i].on].kids) > 0

\* ------------------------------------------------------------------ lookup scenario

\* Names of software systems in the lookup scenario.
TopNames == {NameA, NameB, NameAB}

RECURSIVE SeqsOf(_, _)
\* The sequences of length n over S.
SeqsOf(S, n) ==
    IF n = 0 THEN {<<>>}
    ELSE {Append(q, x) : q \in SeqsOf(S, n - 1), x \in S}

\* The paths given to FindElement: one to three names.
FindPaths ==
    {Join(q) : q \in SeqsOf(ChildNames, 1) \cup SeqsOf(ChildNames, 2) \cup SeqsOf(ChildNames, 3)}

InitFind == InitEmpty /\ implied = FALSE

NextFind ==
    \/ Calls(MaxTop) /\ AddPerson(NameA, "", TRUE)
    \/ \E name \in TopNames : Calls(MaxTop) /\ AddSystem(name, "", TRUE)
    \/ RunDSL
    \/ \E s \in 1..Len(registry), name \in ChildNames :
          Room(FindObjects) /\ AddContainer(s, name)
    \/ \E c \in 1..Len(registry), name \in ChildNames :
          Room(FindObjects) /\ AddComponent(c, name)
    \/ Validate
    \/ \E scope \in 0..Len(registry), path \in FindPaths : Find(scope, path)

SpecFind == InitFind /\ [][NextFind]_vars

\* ------------------------------------------------------------------ lookup claims

ElementIDs == {e \in 1..Len(registry) :
                  registry[e].kind \in {"Person", "SoftwareSystem", "Container", "Component"}}

NameOf(e) == registry[e].name

\* The path P designates the element e from the scope S: "Sys" or "Person",
\* "Sys/Ctr" and "Sys/Ctr/Cmp" from any scope, "Ctr" and "Ctr/Cmp" from the
\* owning system, "Cmp" from the owning container.
Designates(S, P, e) ==
    LET k == registry[e].kind
        up == registry[e].parent
    IN \/ k \in {"Person", "SoftwareSystem"} /\ P = NameOf(e)
       \/ k = "Container" /\ P = Join(<<NameOf(up), NameOf(e)>>)
       \/ k = "Component" /\ P = Join(<<NameOf(registry[up].parent), NameOf(up), NameOf(e)>>)
       \/ k = "Container" /\ S = up /\ P = NameOf(e)
       \/ k = "Component" /\ S = registry[up].parent /\ P = Join(<<NameOf(up), NameOf(e)>>)
       \/ k = "Component" /\ S = up /\ P = NameOf(e)

ScopeKinds == {"nil", "SoftwareSystem", "Container"}

\* The name holds no "/".
SlashFree(name) == \A i \in 1..Len(name) : name[i] # Slash

\* The names a path to e is made of: its own and those of its ancestors.
RECURSIVE ChainSlashFree(_)
ChainSlashFree(e) ==
    /\ SlashFree(NameOf(e))
    /\ registry[e].parent = Nil \/ ChainSlashFree(registry[e].parent)

\* C6 as stated, for names a path can spell (none holds a "/"): in a model
\* that passes the uniqueness check FindElement(S, P) returns the element
\* that P designates from S, also when another element in or above the scope
\* bears the name of a segment of P.
C6_RoundTripAsStated ==
    (phase = "queried" /\ verr = <<>> /\ KindOf(registry, found.scope) \in ScopeKinds) =>
        \A e \in ElementIDs :
            (Designates(found.scope, found.path, e) /\ ChainSlashFree(e)) =>
                (found.res = "ok" /\ found.id = e)

\* A scope-relative reading of P from S names an element: a child of S named
\* P, or, S being a system, a component P[2] of its container P[1].
ScopeRelative(S, P) ==
    LET elems == Split(P)
    IN IF S = Nil THEN Nil
       ELSE IF Len(elems) = 1
            THEN FirstNamed(registry, registry[S].kids, P, 1)
       ELSE IF Len(elems) = 2 /\ registry[S].kind = "SoftwareSystem"
            THEN LET c == FirstNamed(registry, registry[S].kids, elems[1], 1)
                 IN IF c = Nil THEN Nil
                    ELSE FirstNamed(registry, registry[c].kids, elems[2], 1)
       ELSE Nil

\* C6 amended: when no name on the path holds a "/", FindElement(S, P) returns
\* the element the scope-relative reading of P names if there is one, and
\* otherwise the element that P designates from S.
C6_RoundTrip ==
    (phase = "queried" /\ verr = <<>> /\ KindOf(registry, found.scope) \in ScopeKinds) =>
        \A e \in ElementIDs :
            (Designates(found.scope, found.path, e) /\ ChainSlashFree(e)) =>
                /\ found.res = "ok"
                /\ found.id = IF ScopeRelative(found.scope, found.path) # Nil
                              THEN ScopeRelative(found.scope, found.path) ELSE e

\* A container of the scope shadows the system that the path names, and the
\* lookup answered with the container.
C6_Witness ==
    /\ phase = "queried" /\ verr = <<>>
    /\ KindOf(registry, found.scope) = "SoftwareSystem"
    /\ \E e \in ElementIDs :
          /\ registry[e].kind = "SoftwareSystem"
          /\ Designates(found.scope, found.path, e)
          /\ ScopeRelative(found.scope, found.path) # Nil
          /\ found.id = ScopeRelative(found.scope, found.path)
          /\ found.id # e

\* ------------------------------------------------------------------ finalize scenarios

\* (Description, Technology) of a declared relationship.
RelLabels == {<<"uses", "http">>, <<"calls", "">>}

InitMirror == InitEmpty

NextMirror ==
    \/ Calls(MaxTop) /\ AddSystem(NameA, "", TRUE)
    \/ Calls(MaxTop) /\ AddDeploymentNode(NameA, "", "", TRUE)
    \/ RunDSL
    \/ \E s \in 1..Len(registry), name \in ChildNames :
          Children(registry) < MaxMirrorContainers /\ AddContainer(s, name)
    \/ \E n \in 1..Len(registry), c \in 1..Len(registry) :
          Instances(registry) < MaxMirrorInstances /\ AddContainerInstance(n, c)
    \/ \E src \in 1..Len(registry), dest \in 1..Len(registry), lab \in RelLabels :
          Relationships(registry) < MaxMirrorRels /\ Uses(src, dest, <<>>, lab[1], lab[2])
    \/ Validate
    \/ Finalize

SpecMirror == InitMirror /\ [][NextMirror]_vars

InitImplied == InitEmpty

NextImplied ==
    \/ \E name \in Names : Calls(MaxTop) /\ AddSystem(name, "", TRUE)
    \/ RunDSL
    \/ \E s \in 1..Len(registry), name \in ChildNames :
          NoRels /\ Room(ImpliedObjects) /\ AddContainer(s, name)
    \/ \E c \in 1..Len(registry), name \in ChildNames :
          NoRels /\ Room(ImpliedObjects) /\ AddComponent(c, name)
    \/ \E src \in 1..Len(registry), dest \in 1..Len(registry), lab \in RelLabels :
          Room(ImpliedObjects) /\ Uses(src, dest, <<>>, lab[1], lab[2])
    \/ Validate
    \/ Finalize

SpecImplied == InitImplied /\ [][NextImplied]_vars

\* The wider scenario: two systems with their containers, and relationships
\* that all bear one description.
NextImpliedWide ==
    \/ \E name \in Names : Calls(MaxTop) /\ AddSystem(name, "", TRUE)
    \/ RunDSL
    \/ \E s \in 1..Len(registry), name \in ChildNames :
          NoRels /\ Room(WideObjects) /\ AddContainer(s, name)
    \/ \E c \in 1..Len(registry), name \in ChildNames :
          NoRels /\ Room(WideObjects) /\ AddComponent(c, name)
    \/ \E src \in 1..Len(registry), dest \in 1..Len(registry) :
          Room(WideObjects) /\ Uses(src, dest, <<>>, "uses", "http")
    \/ Validate
    \/ Finalize

InitImpliedWide == InitEmpty /\ implied = TRUE

SpecImpliedWide == InitImpliedWide /\ [][NextImpliedWide]_vars

\* ------------------------------------------------------------------ finalize claims

FinalizeStep == phase = "validated" /\ phase' = "finalized"

InstanceIDs(reg) == {i \in 1..Len(reg) : reg[i].kind = "ContainerInstance"}

\* The relationships Finalize registered.
NewRels == (Len(registry) + 1)..Len(registry')

\* The relationships the first pass registered: those of container instances.
Mirrored == {k \in NewRels : registry'[registry'[k].src].kind = "ContainerInstance"}

\* (ci, r, eci): r is a relationship of ci's container to a container of
\* which eci is an instance.
MirrorTriples ==
    {t \in InstanceIDs(registry) \X RelIDs(registry) \X InstanceIDs(registry) :
        /\ \E k \in 1..Len(registry[registry[t[1]].cid].rels) :
              registry[registry[t[1]].cid].rels[k] = t[2]
        /\ registry[registry[t[2]].dest].kind = "Container"
        /\ registry[t[3]].cid = registry[t[2]].dest}

\* The relationships of Mirrored that are the copy of r from ci to eci.
CopiesOf(t) ==
    {k \in Mirrored :
        /\ registry'[k].src = t[1] /\ registry'[k].dest = t[3]
        /\ registry'[k].linked = t[2]
        /\ registry'[k].desc = registry[t[2]].desc
        /\ registry'[k].tech = registry[t[2]].tech
        /\ \E p \in 1..Len(registry'[t[1]].rels) : registry'[t[1]].rels[p] = k}

\* C7: the first pass of Finalize adds exactly one derived relationship for
\* each triple (ci, r, eci) in which eci is another instance than ci, from ci
\* to eci, appended to ci's relationships, with r's description and
\* technology and r as its origin, and adds nothing else.
C7_MirrorOtherInstances ==
    [][FinalizeStep =>
          /\ \A t \in {u \in MirrorTriples : u[3] # u[1]} : Cardinality(CopiesOf(t)) = 1
          /\ \A k \in Mirrored :
                \E t \in {u \in MirrorTriples : u[3] # u[1]} : k \in CopiesOf(t)]_vars

\* What the first pass does: one derived relationship for each triple, that
\* of an instance with itself included.
MirrorAllInstances ==
    [][FinalizeStep =>
          /\ \A t \in MirrorTriples : Cardinality(CopiesOf(t)) = 1
          /\ \A k \in Mirrored : \E t \in MirrorTriples : k \in CopiesOf(t)]_vars

\* The ancestors of e: the system of a container, the container of a
\* component and its system.
Ancestors(reg, e) ==
    CASE reg[e].kind = "Container" -> {reg[e].parent}
      [] reg[e].kind = "Component" -> {reg[e].parent, reg[reg[e].parent].parent}
      [] OTHER -> {}

\* The relationships of e to dest with description desc.
RelsTo(reg, e, dest, desc) ==
    {p \in 1..Len(reg[e].rels) :
        reg[reg[e].rels[p]].dest = dest /\ reg[reg[e].rels[p]].desc = desc}

Kin(reg, x, y) ==
    x = y \/ x \in Ancestors(reg, y) \/ y \in Ancestors(reg, x)

\* Every declared relationship connects two elements that are not kin.
DeclaredApart == \A r \in RelIDs(registry) : ~Kin(registry, registry[r].src, registry[r].dest)

\* C9: after Finalize with the flag set, every ancestor of the source of a
\* relationship of a container or component has a relationship with its
\* description to its destination and to every ancestor of its destination,
\* whatever relationships the ancestors had before (here: the declared
\* relationships connect elements that are not kin).
C9_ImpliedComplete ==
    [][(FinalizeStep /\ implied /\ DeclaredApart) =>
          \A r \in RelIDs(registry) :
              \A a \in Ancestors(registry, registry[r].src) :
                  \A d \in {registry[r].dest} \cup Ancestors(registry, registry[r].dest) :
                      RelsTo(registry', a, d, registry[r].desc) # {}]_vars

\* C10: Finalize adds no relationship of an element to itself, to one of its
\* descendants or to one of its ancestors (here: when no declared
\* relationship is one).
C10_NoSelfOrKin ==
    [][(FinalizeStep /\ DeclaredApart) =>
          \A k \in NewRels : ~Kin(registry', registry'[k].src, registry'[k].dest)]_vars

====
